---- MODULE Spec2Model ----
(***************************************************************************)
(* Model of the WebSocket server of simple-go-websockets                   *)
(* (src/server/server.go): the handshake (UpgradeToWebSocket), the frame   *)
(* codec (readFrame, writeFrame) and the per-connection activities         *)
(* (handleWebSocket, pingLoop), together with the consumer's Send/Close    *)
(* calls and the peer at the other end of the stream.                      *)
(*                                                                         *)
(* Bytes are the integers 0..255; a stream, a frame and a payload are      *)
(* sequences of bytes; a header value is a sequence of character codes.    *)
(***************************************************************************)
EXTENDS Integers, Sequences, FiniteSets, TLC

\* ------------------------------------------------------------------ bounds

\* Most frames the peer puts on one connection's stream.
MaxFrames == 2
\* The same, in the runs of the fair specification.
MaxFairFrames == 1
\* Most Close() calls the consumer makes on one connection.
MaxCloses == 2
\* Most Send() calls the consumer makes on one connection.
MaxSends == 1
\* Most ticks the keepalive ticker delivers on one connection.
MaxTicks == 1
\* Longest payload of the codec's inputs.
MaxPayload == 5
MaxTwoFrames == 1
MaxTwoEvents == 1
MaxKeyLen == 5
MaxStreamPayload == 2
MaxKeepaliveTicks == 2

\* ------------------------------------------------------- bytes and strings

\* b0 ^ b1 on the low n bits (Go's ^ on bytes, n = 8).
RECURSIVE XorBits(_, _, _)
XorBits(a, b, n) ==
    IF n = 0 THEN 0
    ELSE (((a % 2) + (b % 2)) % 2) + 2 * XorBits(a \div 2, b \div 2, n - 1)

Xor(a, b) == XorBits(a, b, 8)

\* The concatenation of a sequence of byte sequences.
RECURSIVE Flatten(_)
Flatten(ss) == IF ss = <<>> THEN <<>> ELSE Head(ss) \o Flatten(Tail(ss))

\* strings.ToLower on ASCII: 'A'..'Z' (65..90) become 'a'..'z'.
ToLower(s) == [i \in 1..Len(s) |-> IF s[i] \in 65..90 THEN s[i] + 32 ELSE s[i]]

\* strings.Contains(s, sub).
Contains(s, sub) ==
    \E i \in 0..(Len(s) - Len(sub)) : SubSeq(s, i + 1, i + Len(sub)) = sub

\* "websocket" and "upgrade", the literals of the header check.
WebsocketLit == <<119,101,98,115,111,99,107,101,116>>
UpgradeLit == <<117,112,103,114,97,100,101>>

\* ------------------------------------------------------------- frame codec

\* Go's int (64 bits) built from the 8 bytes of the extended length,
\* int(b[0])<<56 | ... | int(b[7]): negative when the top bit is set. TLC's
\* integers are 32 bits wide, so the value is kept only when it is below 2^31
\* ("small"); a larger non-negative value is "huge".
Int64Of(b) ==
    IF b[1] >= 128 THEN [kind |-> "negative", val |-> -1]
    ELSE IF b[1] # 0 \/ b[2] # 0 \/ b[3] # 0 \/ b[4] # 0 \/ b[5] >= 128
         THEN [kind |-> "huge", val |-> -1]
         ELSE [kind |-> "small",
               val |-> ((b[5] * 256 + b[6]) * 256 + b[7]) * 256 + b[8]]

\* The payload length readFrame computes from the header and the extended
\* length bytes, and the number of extended length bytes it reads.
ExtLenBytes(s) ==
    LET base == s[2] % 128
    IN  IF base = 126 THEN 2 ELSE IF base = 127 THEN 8 ELSE 0

PayloadLen(s) ==
    LET base == s[2] % 128
    IN  IF base = 126 THEN [kind |-> "small", val |-> s[3] * 256 + s[4]]
        ELSE IF base = 127 THEN Int64Of(SubSeq(s, 3, 10))
        ELSE [kind |-> "small", val |-> base]

\* An unmask loop that leaves the payload as it came.
UnmaskSkipped(payload, maskKey) == payload

\* payload[i] ^= maskKey[i%4], i from 0 (Go) = index i+1 here.
Unmask(payload, maskKey) ==
    [i \in 1..Len(payload) |-> Xor(payload[i], maskKey[((i - 1) % 4) + 1])]

ReadErr == [err |-> "EOF", payload |-> <<>>, header |-> <<>>, rest |-> <<>>]
ReadPanic == [err |-> "panic", payload |-> <<>>, header |-> <<>>, rest |-> <<>>]

\* A readFrame that reads and applies the mask key only when the MASK bit
\* is set.
readFrameMaskAware(s, allocOK) ==
    IF Len(s) < 2 THEN ReadErr
    ELSE
    LET ext == ExtLenBytes(s)
    IN  IF Len(s) < 2 + ext THEN ReadErr
        ELSE
        LET plen == PayloadLen(s)
            isMasked == s[2] >= 128
            off == 2 + ext + (IF isMasked THEN 4 ELSE 0)
        IN  IF Len(s) < off THEN ReadErr
            ELSE IF plen.kind = "negative" THEN ReadPanic
            ELSE IF plen.kind = "huge"
                 THEN (IF allocOK THEN ReadErr ELSE ReadPanic)
            ELSE IF Len(s) < off + plen.val THEN ReadErr
            ELSE [err |-> "nil",
                  payload |-> IF isMasked
                              THEN Unmask(SubSeq(s, off + 1, off + plen.val),
                                          SubSeq(s, off - 3, off))
                              ELSE SubSeq(s, off + 1, off + plen.val),
                  header |-> SubSeq(s, 1, 2),
                  rest |-> SubSeq(s, off + plen.val + 1, Len(s))]

\* readFrame on the bytes s the stream still delivers before it fails.
\* The four reads (header, extended length, mask key, payload) are
\* io.ReadFull calls: a short read is an error. The mask key is read and
\* applied whatever the MASK bit says. make([]byte, payloadLen) panics on a
\* negative length; for a huge positive one the runtime either panics or
\* dies (allocOK false) or allocates and the payload read comes up short.
\* header is the 2 bytes read first (the code keeps them in `header`).
readFrame(s, allocOK) ==
    IF Len(s) < 2 THEN ReadErr
    ELSE
    LET ext == ExtLenBytes(s)
    IN  IF Len(s) < 2 + ext THEN ReadErr
        ELSE
        LET plen == PayloadLen(s)
            off == 2 + ext + 4
        IN  IF Len(s) < off THEN ReadErr
            ELSE IF plen.kind = "negative" THEN ReadPanic
            ELSE IF plen.kind = "huge"
                 THEN (IF allocOK THEN ReadErr ELSE ReadPanic)
            ELSE IF Len(s) < off + plen.val THEN ReadErr
            ELSE [err |-> "nil",
                  payload |-> Unmask(SubSeq(s, off + 1, off + plen.val),
                                     SubSeq(s, off - 3, off)),
                  header |-> SubSeq(s, 1, 2),
                  rest |-> SubSeq(s, off + plen.val + 1, Len(s))]

\* The readFrame of the repository's other server file (src/unnamed/part_000):
\* a 64-bit length is refused, and the mask key is read and applied only
\* when the MASK bit is set.
readFrame0(s) ==
    IF Len(s) < 2 THEN ReadErr
    ELSE
    LET base == s[2] % 128
        isMasked == s[2] >= 128
    IN  IF base = 126 /\ Len(s) < 4 THEN ReadErr
        ELSE IF base = 127
        THEN [err |-> "too large", payload |-> <<>>, header |-> <<>>,
              rest |-> <<>>]
        ELSE
        LET payloadLen == IF base = 126 THEN s[3] * 256 + s[4] ELSE base
            off == (IF base = 126 THEN 4 ELSE 2) + (IF isMasked THEN 4 ELSE 0)
        IN  IF Len(s) < off + payloadLen THEN ReadErr
            ELSE [err |-> "nil",
                  payload |-> IF isMasked
                              THEN Unmask(SubSeq(s, off + 1, off + payloadLen),
                                          SubSeq(s, off - 3, off))
                              ELSE SubSeq(s, off + 1, off + payloadLen),
                  header |-> SubSeq(s, 1, 2),
                  rest |-> SubSeq(s, off + payloadLen + 1, Len(s))]

\* A writeFrame that knows the 7-bit length form only.
writeFrameShortOnly(message) == <<129, Len(message) % 256>> \o message

\* A writeFrame whose 16-bit length is written low byte first.
writeFrameLittleEndian(message) ==
    LET payloadLen == Len(message)
        header ==
            IF payloadLen <= 125 THEN <<129, payloadLen % 256>>
            ELSE IF payloadLen <= 65535
                 THEN <<129, 126, payloadLen % 256, (payloadLen \div 256) % 256>>
                 ELSE <<129, 127, 0, 0, 0, 0,
                        (payloadLen \div 16777216) % 256,
                        (payloadLen \div 65536) % 256,
                        (payloadLen \div 256) % 256,
                        payloadLen % 256>>
    IN  header \o message

\* writeFrame's bytes for message: the header by length tier, then the
\* payload as it is. byte(x) is x % 256; the shifts by 32 and more give 0 for
\* the lengths a 32-bit integer holds.
writeFrame(message) ==
    LET payloadLen == Len(message)
        header ==
            IF payloadLen <= 125 THEN <<129, payloadLen % 256>>
            ELSE IF payloadLen <= 65535
                 THEN <<129, 126, (payloadLen \div 256) % 256, payloadLen % 256>>
                 ELSE <<129, 127, 0, 0, 0, 0,
                        (payloadLen \div 16777216) % 256,
                        (payloadLen \div 65536) % 256,
                        (payloadLen \div 256) % 256,
                        payloadLen % 256>>
    IN  header \o message

\* The writeFrame of the repository's other server file (src/unnamed/part_000):
\* the header is always 2 bytes, the second one byte(len(message)).
writeFrame0(message) == <<129, Len(message) % 256>> \o message

\* The keepalive's frame: PING with no payload.
PingFrame == <<137, 0>>

\* --------------------------------------------------------- the peer's side

\* What a client puts on the stream: a frame with opcode op, the MASK bit as
\* maskBit, the 4 bytes key after the length (XORed into the payload when
\* the MASK bit is set, following it untouched otherwise), the length in
\* the 7-bit, 16-bit ("16") or 64-bit ("64") form.
ClientFrame(op, maskBit, key, form, payload) ==
    LET n == Len(payload)
        m == IF maskBit THEN 128 ELSE 0
        lenBytes ==
            IF form = "16" THEN <<m + 126, n \div 256, n % 256>>
            ELSE IF form = "64"
                 THEN <<m + 127, 0, 0, 0, 0, 0, 0, n \div 256, n % 256>>
                 ELSE <<m + n>>
        body == IF maskBit
                THEN [i \in 1..n |-> Xor(payload[i], key[((i - 1) % 4) + 1])]
                ELSE payload
    IN  <<128 + op>> \o lenBytes \o key \o body

Key1 == <<55, 250, 33, 61>>
Key2 == <<0, 255, 1, 128>>

\* The frames of the connection model's streams. wellFormed: a masked frame
\* with a length the stream honours; op, mask, payload: what the client
\* meant. Two text frames, a ping, a frame whose 64-bit length has the top
\* bit set, and a frame cut short.
TextFrameA ==
    [bytes |-> ClientFrame(1, TRUE, Key1, "7", <<72, 105>>),
     wellFormed |-> TRUE, op |-> 1, mask |-> TRUE, payload |-> <<72, 105>>]
TextFrameB ==
    [bytes |-> ClientFrame(1, TRUE, Key2, "64", <<33>>),
     wellFormed |-> TRUE, op |-> 1, mask |-> TRUE, payload |-> <<33>>]
PingFrameIn ==
    [bytes |-> ClientFrame(9, TRUE, Key1, "7", <<>>),
     wellFormed |-> TRUE, op |-> 9, mask |-> TRUE, payload |-> <<>>]
OversizedFrame ==
    [bytes |-> <<129, 255, 128, 0, 0, 0, 0, 0, 0, 0>> \o Key1,
     wellFormed |-> FALSE, op |-> 1, mask |-> TRUE, payload |-> <<>>]
CutFrame ==
    [bytes |-> <<129, 130, 55>>,
     wellFormed |-> FALSE, op |-> 1, mask |-> TRUE, payload |-> <<>>]

InFrames == {TextFrameA, TextFrameB, PingFrameIn, OversizedFrame, CutFrame}

\* The frames of the streams of the fair specification.
FairFrames == {TextFrameA, OversizedFrame}

\* Sequences over S of length at most n.
SeqsUpTo(S, n) == UNION { [1..k -> S] : k \in 0..n }

\* ------------------------------------------------------------------- state

\* The connections a run may hold; `live` says which ones this run has.
ConnIds == {1, 2}

VARIABLES
    live,       \* the connections of this run (requests that reach the server)
    crashed,    \* the process died of an unrecovered panic
    status,     \* status[c]: the HTTP status http.Error wrote (0: none)
    hijacked,   \* hijacked[c]: Hijack() took the stream from the HTTP layer
    wrote101,   \* wrote101[c]: the 101 response was written to the stream
    upc,        \* upc[c]: where UpgradeToWebSocket is
    closed,     \* closed[c]: the stream (conn) is closed
    closeCalls, \* closeCalls[c]: number of conn.Close() calls made so far
    inbound,    \* inbound[c]: the bytes the peer sent and nobody read yet
    peerEOF,    \* peerEOF[c]: the peer ended the stream (reads fail at its end)
    sent,       \* sent[c]: the frames the peer meant by inbound[c] (history)
    outbound,   \* outbound[c]: the write operations the stream accepted
    calls,      \* calls[c]: the consumer callbacks made for c, in order
    pc,         \* pc[c]: where the handleWebSocket goroutine is
    panicking,  \* panicking[c]: handleWebSocket is unwinding a panic
    decodes,    \* decodes[c]: number of readFrame calls made
    doneClosed, \* doneClosed[c]: the channel `done` is closed
    ppc,        \* ppc[c]: where the pingLoop goroutine is
    ticks,      \* ticks[c]: number of ticks pingLoop took from ticker.C
    closes,     \* closes[c]: number of WSConn.Close() calls by the consumer
    req,        \* req[c]: the upgrade request of connection c and what its
                \* transport will answer to Hijack() and to the write of
                \* the response
    sends,      \* sends[c]: number of WSConn.Send() calls by the consumer
    cin,        \* the codec's input: the bytes of a stream, and what the
                \* client meant by them
    cres,       \* what readFrame returned for it
    cres2,      \* what the next readFrame call returned for what was left
    cres0,      \* what the other file's readFrame returned for it
    wres,       \* the bytes writeFrame wrote for the codec's input message
    wres0,      \* the bytes the other file's writeFrame wrote for it
    rtres,      \* what readFrame returned for wres with a mask injected
    akey,       \* a Sec-WebSocket-Key the response is computed for
    aresp       \* the bytes of the 101 response for akey

hsVars == <<status, hijacked, wrote101, upc>>
streamVars == <<closed, closeCalls, inbound, peerEOF, outbound>>
loopVars == <<calls, pc, panicking, decodes, doneClosed>>
pingVars == <<ppc, ticks>>
consVars == <<closes, sends>>
envVars == <<live, sent, req>>
codecVars == <<cin, cres, cres2, cres0, wres, wres0, rtres, akey, aresp>>
lifeVars == <<envVars, crashed, hsVars, streamVars, loopVars, pingVars,
              consVars>>
vars == <<lifeVars, codecVars>>

\* One consumer callback, as calls[c] records it. msg: OnMessage's text;
\* header: the 2 header bytes of the frame it was decoded from.
Call(cb) == [cb |-> cb, msg |-> <<>>, header |-> <<>>]
MessageCall(r) == [cb |-> "OnMessage", msg |-> r.payload, header |-> r.header]

NumCalls(c, cb) == Cardinality({i \in 1..Len(calls[c]) : calls[c][i].cb = cb})

\* The request headers the handshake is tried on, by what the client means
\* by them.
UpgradeOK ==
    { <<119,101,98,115,111,99,107,101,116>>,        \* websocket
      <<87,101,98,83,111,99,107,101,116>> }         \* WebSocket
UpgradeBad ==
    { <<119,101,98,115,111,99,107,101,116,115>>,    \* websockets
      <<>> }
UpgradeHeaders == UpgradeOK \cup UpgradeBad
ConnectionOK ==
    { <<85,112,103,114,97,100,101>>,                \* Upgrade
      <<107,101,101,112,45,97,108,105,118,101,44,32,85,112,103,114,97,100,101>> }
                                                    \* keep-alive, Upgrade
ConnectionBad ==
    { <<99,108,111,115,101>>,                       \* close
      <<>> }
ConnectionHeaders == ConnectionOK \cup ConnectionBad
KeyOK == { <<100,71,104,108>> }
KeyBad == { <<>> }
KeyHeaders == KeyOK \cup KeyBad

\* An upgrade request: the three headers UpgradeToWebSocket reads, whether
\* the client meant a conforming upgrade by them, and the transport's
\* answers: hijackOK, whether Hijack() returns no error; writeOK, whether
\* the write of the 101 response succeeds. The response surface is a
\* Hijacker, as UpgradeToWebSocket's contract takes it to be.
Requests ==
    { [up |-> up, co |-> co, key |-> key, hijackOK |-> h, writeOK |-> w,
       conforming |-> (up \in UpgradeOK /\ co \in ConnectionOK /\ key \in KeyOK)] :
        up \in UpgradeHeaders, co \in ConnectionHeaders, key \in KeyHeaders,
        h \in BOOLEAN, w \in BOOLEAN }

PlainRequest ==
    [up |-> <<119,101,98,115,111,99,107,101,116>>,
     co |-> <<85,112,103,114,97,100,101>>,
     key |-> <<100,71,104,108>>,
     hijackOK |-> TRUE, writeOK |-> TRUE, conforming |-> TRUE]

\* The requests of the specifications that follow the connection's life:
\* one that is accepted and one for each way the handshake fails.
LifeRequests ==
    { PlainRequest,
      [PlainRequest EXCEPT !.key = <<>>, !.conforming = FALSE],
      [PlainRequest EXCEPT !.hijackOK = FALSE],
      [PlainRequest EXCEPT !.writeOK = FALSE] }

\* The messages the consumer sends.
Messages == { <<79, 75>> }

NoCodecInput ==
    [bytes |-> <<>>, mask |-> FALSE, key |-> <<>>, payload |-> <<>>,
     form |-> "7", kind |-> "none"]
NoCodecResult == [err |-> "none", payload |-> <<>>, header |-> <<>>, rest |-> <<>>]

\* The state after the server accepted the requests: nothing ran yet.
\* Nothing is given to the codec, or to the accept token's computation.
CodecIdle ==
    /\ cin = NoCodecInput
    /\ cres = NoCodecResult
    /\ cres2 = NoCodecResult
    /\ cres0 = NoCodecResult
    /\ wres = <<>>
    /\ wres0 = <<>>
    /\ rtres = NoCodecResult

AcceptIdle == akey = <<>> /\ aresp = <<>>

InitConns(L, F, n, R) ==
    /\ live = L
    /\ req \in [ConnIds -> R \cup {PlainRequest}]
    /\ \A c \in ConnIds :
          IF c \in L THEN req[c] \in R ELSE req[c] = PlainRequest
    /\ crashed = FALSE
    /\ status = [c \in ConnIds |-> 0]
    /\ hijacked = [c \in ConnIds |-> FALSE]
    /\ wrote101 = [c \in ConnIds |-> FALSE]
    /\ upc = [c \in ConnIds |-> "start"]
    /\ closed = [c \in ConnIds |-> FALSE]
    /\ closeCalls = [c \in ConnIds |-> 0]
    /\ sent \in [ConnIds -> SeqsUpTo(F, n)]
    /\ \A c \in ConnIds \ L : sent[c] = <<>>
    /\ inbound = [c \in ConnIds |->
                    Flatten([i \in 1..Len(sent[c]) |-> sent[c][i].bytes])]
    /\ peerEOF = [c \in ConnIds |-> FALSE]
    /\ outbound = [c \in ConnIds |-> <<>>]
    /\ calls = [c \in ConnIds |-> <<>>]
    /\ pc = [c \in ConnIds |-> "idle"]
    /\ panicking = [c \in ConnIds |-> FALSE]
    /\ decodes = [c \in ConnIds |-> 0]
    /\ doneClosed = [c \in ConnIds |-> FALSE]
    /\ ppc = [c \in ConnIds |-> "idle"]
    /\ ticks = [c \in ConnIds |-> 0]
    /\ closes = [c \in ConnIds |-> 0]
    /\ sends = [c \in ConnIds |-> 0]

Init ==
    /\ InitConns({1}, InFrames, MaxFrames, LifeRequests)
    /\ CodecIdle
    /\ AcceptIdle

\* The same with the streams of the fair specification.
FairInit ==
    /\ InitConns({1}, FairFrames, MaxFairFrames, LifeRequests)
    /\ CodecIdle
    /\ AcceptIdle

\* --------------------------------------------------------------- handshake

\* The status the header checks of UpgradeToWebSocket answer with: 400 for a
\* request that is no WebSocket upgrade or has no key, 0 when they pass.
HeaderCheckUpgradeOnly(up, co, key) ==
    IF ToLower(up) # WebsocketLit
    THEN 400
    ELSE IF key = <<>> THEN 400 ELSE 0

HeaderCheck(up, co, key) ==
    IF ToLower(up) # WebsocketLit \/ ~Contains(ToLower(co), UpgradeLit)
    THEN 400
    ELSE IF key = <<>> THEN 400 ELSE 0

\* An UpgradeToWebSocket that does not look at the error of the write of
\* the response.
UpgradeToWebSocketWriteUnchecked(c) ==
    /\ c \in live /\ ~crashed /\ upc[c] = "start"
    /\ IF HeaderCheck(req[c].up, req[c].co, req[c].key) # 0
       THEN /\ status' = [status EXCEPT ![c] =
                             HeaderCheck(req[c].up, req[c].co, req[c].key)]
            /\ upc' = [upc EXCEPT ![c] = "returned"]
            /\ UNCHANGED <<hijacked, wrote101, closed, closeCalls, calls>>
       ELSE IF ~req[c].hijackOK
       THEN /\ status' = [status EXCEPT ![c] = 500]
            /\ upc' = [upc EXCEPT ![c] = "returned"]
            /\ UNCHANGED <<hijacked, wrote101, closed, closeCalls, calls>>
       ELSE /\ hijacked' = [hijacked EXCEPT ![c] = TRUE]
            /\ wrote101' = [wrote101 EXCEPT ![c] = req[c].writeOK]
            /\ calls' = [calls EXCEPT ![c] = Append(@, Call("OnConnect"))]
            /\ upc' = [upc EXCEPT ![c] = "onconnect"]
            /\ UNCHANGED <<status, closed, closeCalls>>
    /\ UNCHANGED <<envVars, crashed, inbound, peerEOF, outbound, pc, panicking,
                   decodes, doneClosed, pingVars, consVars, codecVars>>

\* UpgradeToWebSocket up to its call of handler.OnConnect: the header checks,
\* the hijack, the 101 response. The consumer holds the connection from
\* OnConnect on.
UpgradeToWebSocket(c) ==
    /\ c \in live /\ ~crashed /\ upc[c] = "start"
    /\ IF HeaderCheck(req[c].up, req[c].co, req[c].key) # 0
       THEN /\ status' = [status EXCEPT ![c] =
                             HeaderCheck(req[c].up, req[c].co, req[c].key)]
            /\ upc' = [upc EXCEPT ![c] = "returned"]
            /\ UNCHANGED <<hijacked, wrote101, closed, closeCalls, calls>>
       ELSE IF ~req[c].hijackOK
       THEN /\ status' = [status EXCEPT ![c] = 500]
            /\ upc' = [upc EXCEPT ![c] = "returned"]
            /\ UNCHANGED <<hijacked, wrote101, closed, closeCalls, calls>>
       ELSE IF ~req[c].writeOK
       THEN /\ hijacked' = [hijacked EXCEPT ![c] = TRUE]
            /\ closed' = [closed EXCEPT ![c] = TRUE]
            /\ closeCalls' = [closeCalls EXCEPT ![c] = @ + 1]
            /\ upc' = [upc EXCEPT ![c] = "returned"]
            /\ UNCHANGED <<status, wrote101, calls>>
       ELSE /\ hijacked' = [hijacked EXCEPT ![c] = TRUE]
            /\ wrote101' = [wrote101 EXCEPT ![c] = TRUE]
            /\ calls' = [calls EXCEPT ![c] = Append(@, Call("OnConnect"))]
            /\ upc' = [upc EXCEPT ![c] = "onconnect"]
            /\ UNCHANGED <<status, closed, closeCalls>>
    /\ UNCHANGED <<envVars, crashed, inbound, peerEOF, outbound, pc, panicking,
                   decodes, doneClosed, pingVars, consVars, codecVars>>

\* OnConnect returns and UpgradeToWebSocket starts the goroutine:
\* go handleWebSocket(conn, handler).
UpgradeReturn(c) ==
    /\ c \in live /\ ~crashed /\ upc[c] = "onconnect"
    /\ upc' = [upc EXCEPT ![c] = "returned"]
    /\ pc' = [pc EXCEPT ![c] = "start"]
    /\ UNCHANGED <<envVars, crashed, status, hijacked, wrote101, streamVars,
                   calls, panicking, decodes, doneClosed, pingVars, consVars,
                   codecVars>>

\* -------------------------------------------------------- handleWebSocket

\* The goroutine starts: defer conn.Close(), then handler.OnConnect(wsConn).
HandleStart(c) ==
    /\ c \in live /\ ~crashed /\ pc[c] = "start"
    /\ calls' = [calls EXCEPT ![c] = Append(@, Call("OnConnect"))]
    /\ pc' = [pc EXCEPT ![c] = "onconnect"]
    /\ UNCHANGED <<envVars, crashed, hsVars, streamVars, panicking, decodes,
                   doneClosed, pingVars, consVars, codecVars>>

\* A loop entry that calls handler.OnClose(wsConn) at once instead of
\* deferring it.
HandleLoopEntryNoDefer(c) ==
    /\ c \in live /\ ~crashed /\ pc[c] = "onconnect"
    /\ calls' = [calls EXCEPT ![c] = Append(@, Call("OnClose"))]
    /\ pc' = [pc EXCEPT ![c] = "read"]
    /\ ppc' = [ppc EXCEPT ![c] = "select"]
    /\ UNCHANGED <<envVars, crashed, hsVars, streamVars, panicking,
                   decodes, doneClosed, ticks, consVars, codecVars>>

\* OnConnect returns: defer handler.OnClose(wsConn), done := make(chan),
\* go pingLoop(conn, done), and the for loop is entered.
HandleLoopEntry(c) ==
    /\ c \in live /\ ~crashed /\ pc[c] = "onconnect"
    /\ pc' = [pc EXCEPT ![c] = "read"]
    /\ ppc' = [ppc EXCEPT ![c] = "select"]
    /\ UNCHANGED <<envVars, crashed, hsVars, streamVars, calls, panicking,
                   decodes, doneClosed, ticks, consVars, codecVars>>

\* One turn of the loop: msg, err := readFrame(conn), then OnError and break,
\* or OnMessage. A read of a closed stream fails at once; a short read fails
\* once the peer ended the stream and blocks until then. A panic of
\* readFrame unwinds the goroutine: the deferred OnClose is called.
ReadFrameStep(c) ==
    /\ c \in live /\ ~crashed /\ pc[c] = "read"
    /\ \E allocOK \in BOOLEAN :
          LET r == IF closed[c] THEN ReadErr ELSE readFrame(inbound[c], allocOK)
          IN  /\ r.err = "EOF" => (closed[c] \/ peerEOF[c])
              /\ decodes' = [decodes EXCEPT ![c] = @ + 1]
              /\ IF r.err = "nil"
                 THEN /\ inbound' = [inbound EXCEPT ![c] = r.rest]
                      /\ calls' = [calls EXCEPT ![c] = Append(@, MessageCall(r))]
                      /\ pc' = [pc EXCEPT ![c] = "onmessage"]
                      /\ UNCHANGED panicking
                 ELSE IF r.err = "EOF"
                 THEN /\ calls' = [calls EXCEPT ![c] = Append(@, Call("OnError"))]
                      /\ pc' = [pc EXCEPT ![c] = "onerror"]
                      /\ UNCHANGED <<inbound, panicking>>
                 ELSE /\ panicking' = [panicking EXCEPT ![c] = TRUE]
                      /\ calls' = [calls EXCEPT ![c] = Append(@, Call("OnClose"))]
                      /\ pc' = [pc EXCEPT ![c] = "onclose"]
                      /\ UNCHANGED inbound
    /\ UNCHANGED <<envVars, crashed, hsVars, closed, closeCalls, peerEOF,
                   outbound, doneClosed, pingVars, consVars, codecVars>>

\* OnMessage returns: the loop goes round.
OnMessageReturn(c) ==
    /\ c \in live /\ ~crashed /\ pc[c] = "onmessage"
    /\ pc' = [pc EXCEPT ![c] = "read"]
    /\ UNCHANGED <<envVars, crashed, hsVars, streamVars, calls, panicking,
                   decodes, doneClosed, pingVars, consVars, codecVars>>

\* A return whose deferred calls are registered the other way round:
\* conn.Close() runs before handler.OnClose(wsConn).
OnErrorReturnCloseFirst(c) ==
    /\ c \in live /\ ~crashed /\ pc[c] = "onerror"
    /\ doneClosed' = [doneClosed EXCEPT ![c] = TRUE]
    /\ closeCalls' = [closeCalls EXCEPT ![c] = @ + 1]
    /\ closed' = [closed EXCEPT ![c] = TRUE]
    /\ calls' = [calls EXCEPT ![c] = Append(@, Call("OnClose"))]
    /\ pc' = [pc EXCEPT ![c] = "onclose"]
    /\ UNCHANGED <<envVars, crashed, hsVars, inbound, peerEOF, outbound,
                   panicking, decodes, pingVars, consVars, codecVars>>

\* A return that forgets close(done).
OnErrorReturnNoSignal(c) ==
    /\ c \in live /\ ~crashed /\ pc[c] = "onerror"
    /\ calls' = [calls EXCEPT ![c] = Append(@, Call("OnClose"))]
    /\ pc' = [pc EXCEPT ![c] = "onclose"]
    /\ UNCHANGED <<envVars, crashed, hsVars, streamVars, panicking, decodes,
                   doneClosed, pingVars, consVars, codecVars>>

\* OnError returns: break, close(done), and the function returns, which
\* runs the deferred calls last-in first-out: handler.OnClose(wsConn) first.
OnErrorReturn(c) ==
    /\ c \in live /\ ~crashed /\ pc[c] = "onerror"
    /\ doneClosed' = [doneClosed EXCEPT ![c] = TRUE]
    /\ calls' = [calls EXCEPT ![c] = Append(@, Call("OnClose"))]
    /\ pc' = [pc EXCEPT ![c] = "onclose"]
    /\ UNCHANGED <<envVars, crashed, hsVars, streamVars, panicking, decodes,
                   pingVars, consVars, codecVars>>

\* A return without the deferred conn.Close().
OnCloseReturnNoClose(c) ==
    /\ c \in live /\ ~crashed /\ pc[c] = "onclose"
    /\ pc' = [pc EXCEPT ![c] = IF panicking[c] THEN "crashed" ELSE "done"]
    /\ crashed' = panicking[c]
    /\ UNCHANGED <<envVars, hsVars, streamVars, calls, panicking, decodes,
                   doneClosed, pingVars, consVars, codecVars>>

\* OnClose returns: the deferred conn.Close() runs, and the goroutine ends,
\* or the panic it was unwinding ends the process.
OnCloseReturn(c) ==
    /\ c \in live /\ ~crashed /\ pc[c] = "onclose"
    /\ closeCalls' = [closeCalls EXCEPT ![c] = @ + 1]
    /\ closed' = [closed EXCEPT ![c] = TRUE]
    /\ pc' = [pc EXCEPT ![c] = IF panicking[c] THEN "crashed" ELSE "done"]
    /\ crashed' = panicking[c]
    /\ UNCHANGED <<envVars, hsVars, inbound, peerEOF, outbound, calls,
                   panicking, decodes, doneClosed, pingVars, consVars,
                   codecVars>>

\* ---------------------------------------------------------------- pingLoop

\* A keepalive that returns when its write fails.
PingTickStopsOnError(c, cap) ==
    /\ c \in live /\ ~crashed /\ ppc[c] = "select"
    /\ ticks[c] < cap
    /\ ticks' = [ticks EXCEPT ![c] = @ + 1]
    /\ \E writeOK \in BOOLEAN :
          /\ outbound' = [outbound EXCEPT ![c] =
                             IF writeOK /\ ~closed[c] THEN Append(@, PingFrame)
                             ELSE @]
          /\ ppc' = [ppc EXCEPT ![c] =
                        IF writeOK /\ ~closed[c] THEN @ ELSE "done"]
    /\ UNCHANGED <<envVars, crashed, hsVars, closed, closeCalls, inbound,
                   peerEOF, loopVars, consVars, codecVars>>

\* select takes a tick: conn.Write([]byte{0x89, 0x00}), its result dropped.
\* The write fails on a closed stream, and may fail on an open one.
\* cap: the number of ticks the specification lets the ticker deliver.
PingTickUpTo(c, cap) ==
    /\ c \in live /\ ~crashed /\ ppc[c] = "select"
    /\ ticks[c] < cap
    /\ ticks' = [ticks EXCEPT ![c] = @ + 1]
    /\ \E writeOK \in BOOLEAN :
          outbound' = [outbound EXCEPT ![c] =
                          IF writeOK /\ ~closed[c] THEN Append(@, PingFrame)
                          ELSE @]
    /\ UNCHANGED <<envVars, crashed, hsVars, closed, closeCalls, inbound,
                   peerEOF, loopVars, ppc, consVars, codecVars>>

PingTick(c) == PingTickUpTo(c, MaxTicks)

\* A keepalive whose select has no done case.
PingStopNoDone(c) ==
    /\ c \in live /\ ~crashed /\ ppc[c] = "select"
    /\ FALSE
    /\ UNCHANGED vars

\* select takes <-done: return (the deferred ticker.Stop() runs).
PingStop(c) ==
    /\ c \in live /\ ~crashed /\ ppc[c] = "select"
    /\ doneClosed[c]
    /\ ppc' = [ppc EXCEPT ![c] = "done"]
    /\ UNCHANGED <<envVars, crashed, hsVars, streamVars, loopVars, ticks,
                   consVars, codecVars>>

\* --------------------------------------------- the consumer and the peer

\* The consumer has the connection once OnConnect was called with it.
Known(c) == NumCalls(c, "OnConnect") > 0

\* WSConn.Close(): conn.Close(), from a callback or from another goroutine.
Close(c) ==
    /\ c \in live /\ ~crashed /\ Known(c)
    /\ closes[c] < MaxCloses
    /\ closes' = [closes EXCEPT ![c] = @ + 1]
    /\ closeCalls' = [closeCalls EXCEPT ![c] = @ + 1]
    /\ closed' = [closed EXCEPT ![c] = TRUE]
    /\ UNCHANGED <<envVars, crashed, hsVars, inbound, peerEOF, outbound,
                   loopVars, pingVars, sends, codecVars>>

\* A Send whose writeFrame writes the 2 header bytes and the rest in two
\* Write calls.
SendTwoWrites(c) ==
    /\ c \in live /\ ~crashed /\ Known(c)
    /\ sends[c] < MaxSends
    /\ sends' = [sends EXCEPT ![c] = @ + 1]
    /\ \E message \in Messages, writeOK \in BOOLEAN :
          outbound' = [outbound EXCEPT ![c] =
                          IF writeOK /\ ~closed[c]
                          THEN Append(Append(@, SubSeq(writeFrame(message), 1, 2)),
                                      SubSeq(writeFrame(message), 3,
                                             Len(writeFrame(message))))
                          ELSE @]
    /\ UNCHANGED <<envVars, crashed, hsVars, closed, closeCalls, inbound,
                   peerEOF, loopVars, pingVars, closes, codecVars>>

\* WSConn.Send(message): writeFrame(c.conn, []byte(message)), one Write.
Send(c) ==
    /\ c \in live /\ ~crashed /\ Known(c)
    /\ sends[c] < MaxSends
    /\ sends' = [sends EXCEPT ![c] = @ + 1]
    /\ \E message \in Messages, writeOK \in BOOLEAN :
          outbound' = [outbound EXCEPT ![c] =
                          IF writeOK /\ ~closed[c]
                          THEN Append(@, writeFrame(message))
                          ELSE @]
    /\ UNCHANGED <<envVars, crashed, hsVars, closed, closeCalls, inbound,
                   peerEOF, loopVars, pingVars, closes, codecVars>>

\* The peer ends the stream: reads fail once the bytes it sent are taken.
PeerClose(c) ==
    /\ c \in live /\ ~crashed /\ wrote101[c] /\ ~peerEOF[c]
    /\ peerEOF' = [peerEOF EXCEPT ![c] = TRUE]
    /\ UNCHANGED <<envVars, crashed, hsVars, closed, closeCalls, inbound,
                   outbound, loopVars, pingVars, consVars, codecVars>>

\* ----------------------------------------------------------- specification

Next ==
    \E c \in ConnIds :
        \/ UpgradeToWebSocket(c)
        \/ UpgradeReturn(c)
        \/ HandleStart(c)
        \/ HandleLoopEntry(c)
        \/ ReadFrameStep(c)
        \/ OnMessageReturn(c)
        \/ OnErrorReturn(c)
        \/ OnCloseReturn(c)
        \/ PingTick(c)
        \/ PingStop(c)
        \/ Close(c)
        \/ Send(c)
        \/ PeerClose(c)

Spec == Init /\ [][Next]_vars

\* The scheduler runs every goroutine that can take a step, and callbacks
\* return: the steps of UpgradeToWebSocket, handleWebSocket and pingLoop's
\* return are weakly fair. Nothing makes the consumer, the peer or the
\* ticker act.
Fairness ==
    \A c \in ConnIds :
        /\ WF_vars(UpgradeReturn(c))
        /\ WF_vars(HandleStart(c))
        /\ WF_vars(HandleLoopEntry(c))
        /\ WF_vars(ReadFrameStep(c))
        /\ WF_vars(OnMessageReturn(c))
        /\ WF_vars(OnErrorReturn(c))
        /\ WF_vars(OnCloseReturn(c))
        /\ WF_vars(PingStop(c))

FairSpec == FairInit /\ [][Next]_vars /\ Fairness

\* Two connections at once, each through an accepted handshake and each
\* with a stream of its own. The consumer's and the keepalive's steps
\* (close(), Send(), ticks) are counted over both connections and capped by
\* MaxTwoEvents.
TwoFrames == {TextFrameA, TextFrameB, OversizedFrame}

TwoInit ==
    /\ InitConns(ConnIds, TwoFrames, MaxTwoFrames, {PlainRequest})
    /\ CodecIdle
    /\ AcceptIdle

TwoBudget ==
    closes[1] + closes[2] + sends[1] + sends[2] + ticks[1] + ticks[2]
        < MaxTwoEvents

TwoNext ==
    \E c \in ConnIds :
        \/ UpgradeToWebSocket(c)
        \/ UpgradeReturn(c)
        \/ HandleStart(c)
        \/ HandleLoopEntry(c)
        \/ ReadFrameStep(c)
        \/ OnMessageReturn(c)
        \/ OnErrorReturn(c)
        \/ OnCloseReturn(c)
        \/ (TwoBudget /\ PingTick(c))
        \/ PingStop(c)
        \/ (TwoBudget /\ Close(c))
        \/ (TwoBudget /\ Send(c))
        \/ PeerClose(c)

TwoSpec == TwoInit /\ [][TwoNext]_vars

\* The specification of the keepalive: one accepted connection on the
\* streams of the fair specification, the ticker delivering up to
\* MaxKeepaliveTicks ticks.
KeepaliveInit ==
    /\ InitConns({1}, FairFrames, MaxFairFrames, {PlainRequest})
    /\ CodecIdle
    /\ AcceptIdle

KeepaliveNext ==
    \E c \in ConnIds :
        \/ UpgradeToWebSocket(c)
        \/ UpgradeReturn(c)
        \/ HandleStart(c)
        \/ HandleLoopEntry(c)
        \/ ReadFrameStep(c)
        \/ OnMessageReturn(c)
        \/ OnErrorReturn(c)
        \/ OnCloseReturn(c)
        \/ PingTickUpTo(c, MaxKeepaliveTicks)
        \/ PingStop(c)
        \/ Close(c)
        \/ Send(c)
        \/ PeerClose(c)

KeepaliveSpec == KeepaliveInit /\ [][KeepaliveNext]_vars

\* The specification of the handshake: every request of Requests, on the
\* streams of the fair specification.
HandshakeInit ==
    /\ InitConns({1}, FairFrames, MaxFairFrames, Requests)
    /\ CodecIdle
    /\ AcceptIdle

HandshakeSpec == HandshakeInit /\ [][Next]_vars

\* ------------------------------------------------- the codec on its own

PayloadBytes == {72, 255}

\* The streams readFrame is applied to: one text frame with a payload of
\* up to MaxPayload bytes, the MASK bit set or clear, 4 key bytes after the
\* length (or, for an unmasked frame, none), in each length form; and the
\* frames whose 64-bit length has the top bit set or is 2^32.
CodecInputs ==
    { [bytes |-> ClientFrame(1, m, k, f, p), mask |-> m, key |-> k,
       payload |-> p, form |-> f, kind |-> "frame"] :
         m \in BOOLEAN, k \in {Key1, Key2}, f \in {"7", "16", "64"},
         p \in SeqsUpTo(PayloadBytes, MaxPayload) }
    \cup
    { [bytes |-> ClientFrame(1, FALSE, <<>>, f, p), mask |-> FALSE,
       key |-> <<>>, payload |-> p, form |-> f, kind |-> "frame"] :
         f \in {"7", "16", "64"}, p \in SeqsUpTo(PayloadBytes, MaxPayload) }
    \cup
    { [bytes |-> <<129, 255, 128, 0, 0, 0, 0, 0, 0, 0>> \o Key1,
       mask |-> TRUE, key |-> Key1, payload |-> <<>>, form |-> "64",
       kind |-> "negative"],
      [bytes |-> <<129, 255, 0, 0, 0, 1, 0, 0, 0, 0>> \o Key1,
       mask |-> TRUE, key |-> Key1, payload |-> <<>>, form |-> "64",
       kind |-> "huge"] }

\* Streams of two frames back to back: a first frame with 4 key bytes
\* after its length field, its MASK bit set or clear, then a well-formed
\* masked text frame. tail: the bytes of the second frame; next: its payload.
StreamInputs ==
    { [bytes |-> ClientFrame(1, m, Key1, f, p) \o second.bytes, mask |-> m,
       key |-> Key1, payload |-> p, form |-> f, kind |-> "stream",
       tail |-> second.bytes, next |-> second.payload] :
         m \in BOOLEAN, f \in {"7", "16", "64"},
         p \in SeqsUpTo(PayloadBytes, MaxStreamPayload),
         second \in {TextFrameA, TextFrameB} }

\* Streams that end inside a frame: every proper prefix of a well-formed
\* masked text frame of each length form.
CutWhole(f) == ClientFrame(1, TRUE, Key2, f, <<72, 255>>)
CutInputs ==
    UNION { { [bytes |-> SubSeq(CutWhole(f), 1, n), mask |-> TRUE,
               key |-> Key2, payload |-> <<72, 255>>, form |-> f,
               kind |-> "cut"] : n \in 0..(Len(CutWhole(f)) - 1) } :
            f \in {"7", "16", "64"} }

\* The payload lengths at the edges of writeFrame's three length forms.
TierLens == {125, 126, 65535, 65536, 70000}

\* A payload of n bytes that differ from place to place.
PatternPayload(n, seed) == [i \in 1..n |-> (i * 7 + seed) % 256]

\* The messages writeFrame is applied to, each with the mask key the
\* round trip injects: every payload of up to MaxPayload bytes, and one
\* payload of each length of TierLens.
EncodeInputs ==
    { [bytes |-> <<>>, mask |-> TRUE, key |-> k, payload |-> p,
       form |-> "7", kind |-> "message"] :
         k \in {Key1, Key2}, p \in SeqsUpTo(PayloadBytes, MaxPayload) }
    \cup
    { [bytes |-> <<>>, mask |-> TRUE, key |-> Key1,
       payload |-> PatternPayload(n, 3), form |-> "7", kind |-> "message"] :
         n \in TierLens }

CodecInit ==
    /\ InitConns({}, {}, 0, {})
    /\ cin \in CodecInputs \cup StreamInputs \cup CutInputs \cup EncodeInputs
    /\ cres = NoCodecResult
    /\ cres2 = NoCodecResult
    /\ cres0 = NoCodecResult
    /\ wres = <<>>
    /\ wres0 = <<>>
    /\ rtres = NoCodecResult
    /\ AcceptIdle

\* readFrame is called on a stream that holds cin.bytes and then ends.
Decode ==
    /\ cin.kind # "message"
    /\ cres.err = "none"
    /\ \E allocOK \in BOOLEAN : cres' = readFrame(cin.bytes, allocOK)
    /\ UNCHANGED <<lifeVars, cin, cres2, cres0, wres, wres0, rtres, akey, aresp>>

\* readFrame is called again, on what the first call left of the stream.
DecodeNext ==
    /\ cres.err = "nil" /\ cres.rest # <<>>
    /\ cres2.err = "none"
    /\ \E allocOK \in BOOLEAN : cres2' = readFrame(cres.rest, allocOK)
    /\ UNCHANGED <<lifeVars, cin, cres, cres0, wres, wres0, rtres, akey,
                   aresp>>

\* The other file's readFrame is called on the same stream.
Decode0 ==
    /\ cin.kind # "message"
    /\ cres0.err = "none"
    /\ cres0' = readFrame0(cin.bytes)
    /\ UNCHANGED <<lifeVars, cin, cres, cres2, wres, wres0, rtres, akey,
                   aresp>>

\* writeFrame is called on the message: wres is what conn.Write is given.
Encode ==
    /\ cin.kind = "message"
    /\ wres = <<>>
    /\ wres' = writeFrame(cin.payload)
    /\ UNCHANGED <<lifeVars, cin, cres, cres2, cres0, wres0, rtres, akey,
                   aresp>>

\* The other file's writeFrame is called on the message.
Encode0 ==
    /\ cin.kind = "message"
    /\ wres0 = <<>>
    /\ wres0' = writeFrame0(cin.payload)
    /\ UNCHANGED <<lifeVars, cin, cres, cres2, cres0, wres, rtres, akey,
                   aresp>>

\* What a client makes of a server frame to send it back: the MASK bit set,
\* the 4 key bytes put after the length field, the payload XORed with them.
InjectMask(frame, key) ==
    LET h == 2 + ExtLenBytes(frame)
        n == Len(frame) - h
    IN  <<frame[1], frame[2] + 128>> \o SubSeq(frame, 3, h) \o key
        \o [i \in 1..n |-> Xor(frame[h + i], key[((i - 1) % 4) + 1])]

\* readFrame is called on the written frame, masked with cin.key.
RoundTrip ==
    /\ wres # <<>>
    /\ rtres.err = "none"
    /\ \E allocOK \in BOOLEAN :
          rtres' = readFrame(InjectMask(wres, cin.key), allocOK)
    /\ UNCHANGED <<lifeVars, cin, cres, cres2, cres0, wres, wres0, akey,
                   aresp>>

CodecNext == Decode \/ DecodeNext \/ Decode0 \/ Encode \/ Encode0 \/ RoundTrip

CodecSpec == CodecInit /\ [][CodecNext]_vars

\* --------------------------------------------------------- the accept token

\* crypto/sha1 on 32-bit words kept as two 16-bit halves <<high, low>>.
RECURSIVE AndBits(_, _, _)
AndBits(a, b, n) ==
    IF n = 0 THEN 0
    ELSE ((a % 2) * (b % 2)) + (2 * AndBits(a \div 2, b \div 2, n - 1))

And16(a, b) == AndBits(a, b, 16)
Xor16(a, b) == (a + b) - (2 * And16(a, b))
Not16(a) == 65535 - a

WordXor(x, y) == <<Xor16(x[1], y[1]), Xor16(x[2], y[2])>>

\* Addition modulo 2^32.
WordAdd(x, y) ==
    LET lo == x[2] + y[2]
        hi == x[1] + y[1] + (lo \div 65536)
    IN  <<hi % 65536, lo % 65536>>

\* Rotation to the left by n bits, 0 < n < 32, n # 16.
RotlSmall(x, n) ==
    <<((x[1] * (2 ^ n)) % 65536) + (x[2] \div (2 ^ (16 - n))),
      ((x[2] * (2 ^ n)) % 65536) + (x[1] \div (2 ^ (16 - n)))>>
Rotl(x, n) == IF n < 16 THEN RotlSmall(x, n) ELSE RotlSmall(<<x[2], x[1]>>, n - 16)

\* The round function and the round constant of round t, 0 <= t < 80.
ShaF16(t, b, c, d) ==
    IF t < 20 THEN And16(b, c) + And16(Not16(b), d)
    ELSE IF t < 40 THEN Xor16(Xor16(b, c), d)
    ELSE IF t < 60 THEN And16(b, c) + And16(Xor16(b, c), d)
    ELSE Xor16(Xor16(b, c), d)
ShaF(t, b, c, d) == <<ShaF16(t, b[1], c[1], d[1]), ShaF16(t, b[2], c[2], d[2])>>
ShaK(t) ==
    IF t < 20 THEN <<23170, 31129>>          \* 5A827999
    ELSE IF t < 40 THEN <<28377, 60321>>     \* 6ED9EBA1
    ELSE IF t < 60 THEN <<36635, 48348>>     \* 8F1BBCDC
    ELSE <<51810, 49622>>                    \* CA62C1D6
ShaInit ==
    << <<26437, 8961>>,      \* 67452301
       <<61389, 43913>>,     \* EFCDAB89
       <<39098, 56574>>,     \* 98BADCFE
       <<4146, 21622>>,      \* 10325476
       <<50130, 57840>> >>   \* C3D2E1F0

\* The message, a 1 bit, zeros up to 56 modulo 64 bytes, the bit length in
\* 8 bytes.
ShaPad(msg) ==
    LET n == Len(msg)
        z == (119 - (n % 64)) % 64
        bits == n * 8
    IN  msg \o <<128>> \o [i \in 1..z |-> 0]
        \o <<0, 0, 0, 0, (bits \div 16777216) % 256, (bits \div 65536) % 256,
             (bits \div 256) % 256, bits % 256>>

\* The 80 words of a block: its 16 words, then each the rotated XOR of four
\* earlier ones.
RECURSIVE ShaSchedule(_)
ShaSchedule(w) ==
    IF Len(w) >= 80 THEN w
    ELSE LET n == Len(w) + 1
         IN  ShaSchedule(Append(w,
                 Rotl(WordXor(WordXor(w[n - 3], w[n - 8]),
                              WordXor(w[n - 14], w[n - 16])), 1)))

RECURSIVE ShaRounds(_, _, _)
ShaRounds(t, st, w) ==
    IF t = 80 \/ Len(st) # 5 THEN st
    ELSE LET temp == WordAdd(WordAdd(WordAdd(Rotl(st[1], 5),
                                             ShaF(t, st[2], st[3], st[4])),
                                     WordAdd(st[5], ShaK(t))),
                             w[t + 1])
         IN  ShaRounds(t + 1, <<temp, st[1], Rotl(st[2], 30), st[3], st[4]>>, w)

ShaBlock(h, block) ==
    LET w == ShaSchedule([i \in 1..16 |->
                 <<(block[(4 * i) - 3] * 256) + block[(4 * i) - 2],
                   (block[(4 * i) - 1] * 256) + block[4 * i]>>])
        r == ShaRounds(0, h, w)
    IN  <<WordAdd(h[1], r[1]), WordAdd(h[2], r[2]), WordAdd(h[3], r[3]),
          WordAdd(h[4], r[4]), WordAdd(h[5], r[5])>>

RECURSIVE ShaBlocks(_, _)
ShaBlocks(h, bytes) ==
    IF bytes = <<>> THEN h
    ELSE ShaBlocks(ShaBlock(h, SubSeq(bytes, 1, 64)),
                   SubSeq(bytes, 65, Len(bytes)))

WordBytes(x) == <<x[1] \div 256, x[1] % 256, x[2] \div 256, x[2] % 256>>

\* sha1.Sum: the 20 bytes of the digest.
Sha1Sum(msg) ==
    LET h == ShaBlocks(ShaInit, ShaPad(msg))
    IN  WordBytes(h[1]) \o WordBytes(h[2]) \o WordBytes(h[3])
        \o WordBytes(h[4]) \o WordBytes(h[5])

\* base64.StdEncoding: A-Z a-z 0-9 + /, padded with =.
Base64Char(v) ==
    IF v < 26 THEN 65 + v
    ELSE IF v < 52 THEN 97 + (v - 26)
    ELSE IF v < 62 THEN 48 + (v - 52)
    ELSE IF v = 62 THEN 43 ELSE 47

RECURSIVE Base64(_)
Base64(b) ==
    IF b = <<>> THEN <<>>
    ELSE IF Len(b) = 1
    THEN <<Base64Char(b[1] \div 4), Base64Char((b[1] % 4) * 16), 61, 61>>
    ELSE IF Len(b) = 2
    THEN <<Base64Char(b[1] \div 4),
           Base64Char(((b[1] % 4) * 16) + (b[2] \div 16)),
           Base64Char((b[2] % 16) * 4), 61>>
    ELSE <<Base64Char(b[1] \div 4),
           Base64Char(((b[1] % 4) * 16) + (b[2] \div 16)),
           Base64Char(((b[2] % 16) * 4) + (b[3] \div 64)),
           Base64Char(b[3] % 64)>> \o Base64(SubSeq(b, 4, Len(b)))

\* "258EAFA5-E914-47DA-95CA-C5AB0DC85B11"
wsGUID ==
        <<50,53,56,69,65,70,65,53,45,69,57,49,52,45,52,55,68,65,45,57,53,67,
      65,45,67,53,65,66,48,68,67,56,53,66,49,49>>

\* An accept token with the GUID put before the key.
AcceptKeyGuidFirst(key) == Base64(Sha1Sum(wsGUID \o key))

\* acceptKey of UpgradeToWebSocket.
AcceptKey(key) == Base64(Sha1Sum(key \o wsGUID))

\* The response up to the accept token: the status line, the Upgrade and
\* Connection headers and "Sec-WebSocket-Accept: ".
ResponseHead ==
        <<72,84,84,80,47,49,46,49,32,49,48,49,32,83,119,105,116,99,104,105,
      110,103,32,80,114,111,116,111,99,111,108,115,13,10,85,112,103,114,97,
      100,101,58,32,119,101,98,115,111,99,107,101,116,13,10,67,111,110,110,
      101,99,116,105,111,110,58,32,85,112,103,114,97,100,101,13,10,83,101,
      99,45,87,101,98,83,111,99,107,101,116,45,65,99,99,101,112,116,58,32>>

Response(key) == ResponseHead \o AcceptKey(key) \o <<13, 10, 13, 10>>

\* The key of the protocol's sample handshake, "dGhlIHNhbXBsZSBub25jZQ==".
SampleKey ==
        <<100,71,104,108,73,72,78,104,98,88,66,115,90,83,66,117,98,50,53,
      106,90,81,61,61>>

\* The keys the response is computed for: the sample key and every key of
\* up to MaxKeyLen letters A and B.
AcceptKeys == {SampleKey} \cup (SeqsUpTo({65, 66}, MaxKeyLen) \ {<<>>})

AcceptInit ==
    /\ InitConns({}, {}, 0, {})
    /\ CodecIdle
    /\ akey \in AcceptKeys
    /\ aresp = <<>>

\* UpgradeToWebSocket computes the response for the key.
ComputeResponse ==
    /\ akey # <<>>
    /\ aresp = <<>>
    /\ aresp' = Response(akey)
    /\ UNCHANGED <<lifeVars, cin, cres, cres2, cres0, wres, wres0, rtres,
                   akey>>

AcceptSpec == AcceptInit /\ [][ComputeResponse]_vars

\* ------------------------------------------------------------------ claims

\* The texts of the OnMessage calls of c, in the order they were made.
MessagesOf(c) ==
    LET ms == SelectSeq(calls[c], LAMBDA x : x.cb = "OnMessage")
    IN  [i \in 1..Len(ms) |-> ms[i].msg]

\* The payloads the peer meant by the frames it sent, in order.
PayloadsOf(c) == [i \in 1..Len(sent[c]) |-> sent[c][i].payload]

IsPrefix(a, b) == Len(a) <= Len(b) /\ SubSeq(b, 1, Len(a)) = a

\* The peer sent well-formed masked text frames only.
AllValidText(c) ==
    \A i \in 1..Len(sent[c]) : sent[c][i].wellFormed /\ sent[c][i].op = 1

\* handleWebSocket has returned (or died).
LoopEnded(c) == pc[c] \in {"done", "crashed"}

\* C1: for every connection whose handshake succeeds, OnConnect is invoked
\* exactly once, before the read loop's first decode attempt, and never a
\* second time.
C1_OnConnectExactlyOnce ==
    \A c \in ConnIds :
        /\ wrote101[c] => NumCalls(c, "OnConnect") = 1
        /\ decodes[c] > 0 => calls[c][1].cb = "OnConnect"

\* C2: for every connection that entered the connection loop, OnClose fires
\* at most once, is the last callback made for the connection, and has
\* fired exactly once when handleWebSocket has ended, whatever ended it.
C2_OnCloseOnceAndLast ==
    \A c \in ConnIds :
        /\ NumCalls(c, "OnClose") <= 1
        /\ \A i \in 1..Len(calls[c]) :
              calls[c][i].cb = "OnClose" => i = Len(calls[c])
        /\ LoopEnded(c) => NumCalls(c, "OnClose") = 1
        /\ NumCalls(c, "OnClose") = 1 => pc[c] \in {"onclose", "done", "crashed"}

\* C2's case: the loop ended after a message was delivered and the consumer
\* called close().
C2_Witness ==
    \E c \in ConnIds :
        /\ pc[c] = "done" /\ closes[c] > 0
        /\ NumCalls(c, "OnMessage") > 0 /\ NumCalls(c, "OnClose") = 1

\* C3: when the stream delivers N valid text frames and then fails, the
\* OnMessage calls carry the payloads in arrival order (all N of them when
\* the consumer never closed), every decode attempt but the failing one has
\* its OnMessage, no decode attempt is made while an OnMessage runs, and
\* exactly one OnError follows them, after which nothing is decoded.
C3_SequentialDelivery ==
    \A c \in ConnIds :
        AllValidText(c) =>
            LET nMsg == NumCalls(c, "OnMessage")
                nErr == NumCalls(c, "OnError")
            IN  /\ IsPrefix(MessagesOf(c), PayloadsOf(c))
                /\ nErr <= 1
                /\ decodes[c] = nMsg + nErr
                /\ pc[c] = "onmessage" =>
                      /\ calls[c][Len(calls[c])].cb = "OnMessage"
                      /\ decodes[c] = nMsg
                /\ nErr = 1 =>
                      /\ pc[c] \in {"onerror", "onclose", "done"}
                      /\ \A i, j \in 1..Len(calls[c]) :
                            (calls[c][i].cb = "OnError"
                               /\ calls[c][j].cb = "OnMessage") => j < i
                /\ (pc[c] = "done" /\ closes[c] = 0) =>
                      (MessagesOf(c) = PayloadsOf(c) /\ nErr = 1)

\* C3's case: two valid text frames were delivered, then the peer ended the
\* stream, and the loop ended.
C3_Witness ==
    \E c \in ConnIds :
        /\ AllValidText(c) /\ Len(sent[c]) = 2
        /\ pc[c] = "done" /\ closes[c] = 0
        /\ NumCalls(c, "OnMessage") = 2 /\ NumCalls(c, "OnError") = 1

\* C4 as claimed: OnClose fires after the stream has been closed.
C4_OnCloseAfterStreamClose ==
    \A c \in ConnIds : NumCalls(c, "OnClose") > 0 => closed[c]

\* C4 as amended: OnClose fires before the read activity closes the stream.
\* While OnClose runs, handleWebSocket has made no conn.Close() call (the
\* stream is closed only if the consumer closed it), and once it has made
\* one, OnClose has been called and has returned.
C4_OnCloseBeforeLoopClose ==
    \A c \in ConnIds :
        /\ pc[c] = "onclose" =>
              /\ closeCalls[c] = closes[c]
              /\ closed[c] <=> closes[c] > 0
        /\ (wrote101[c] /\ closeCalls[c] > closes[c]) =>
              /\ LoopEnded(c)
              /\ NumCalls(c, "OnClose") = 1

\* C4's case: the loop ended on its own, OnClose fired and the stream was
\* closed by handleWebSocket alone.
C4_Witness ==
    \E c \in ConnIds :
        /\ pc[c] = "done" /\ closes[c] = 0 /\ closeCalls[c] = 1
        /\ NumCalls(c, "OnClose") = 1

\* C5 as claimed: over the lifetime of a connection the stream's close
\* operation is performed exactly once.
C5_StreamClosedOnce ==
    \A c \in ConnIds :
        /\ closeCalls[c] <= 1
        /\ LoopEnded(c) => closeCalls[c] = 1

\* C5 as amended: handleWebSocket performs the stream's close operation
\* exactly once, when the loop has ended, and every close() of the consumer
\* performs it once more; the stream is closed from the first of them on.
C5_CloseCallsCounted ==
    \A c \in ConnIds :
        wrote101[c] =>
            /\ closeCalls[c] = closes[c] + (IF LoopEnded(c) THEN 1 ELSE 0)
            /\ closed[c] <=> closeCalls[c] > 0

\* C5's case: the consumer called close() twice and the loop ended.
C5_Witness ==
    \E c \in ConnIds : pc[c] = "done" /\ closes[c] = 2 /\ closeCalls[c] = 3

\* C6: in every state in which the stream is closed, the read loop and the
\* keepalive loop have stopped.
C6_ActivitiesStoppedWhenClosed ==
    \A c \in ConnIds :
        (wrote101[c] /\ closed[c]) => (LoopEnded(c) /\ ppc[c] = "done")

\* C7: once the consumer has called close() on a connection that is not
\* already unwinding a panic, the read loop ends, the keepalive is signalled
\* (done is closed), nothing panics and OnClose has fired exactly once.
C7_CloseEndsConnection ==
    \A c \in ConnIds :
        (closes[c] > 0 /\ ~panicking[c]) ~>
            (/\ pc[c] = "done"
             /\ doneClosed[c]
             /\ ~crashed /\ ~panicking[c]
             /\ NumCalls(c, "OnClose") = 1)

\* C7's case: close() was called twice and the connection reached Closed.
C7_Witness ==
    \E c \in ConnIds :
        /\ closes[c] = 2 /\ pc[c] = "done" /\ doneClosed[c]
        /\ NumCalls(c, "OnClose") = 1

\* C8: every decode-path failure is reported once through OnError, the loop
\* ends, OnClose fires, and nothing panics: the process never crashes.
C8_DecodeFailureContained ==
    /\ ~crashed
    /\ \A c \in ConnIds :
          /\ ~panicking[c]
          /\ NumCalls(c, "OnClose") = 1 => NumCalls(c, "OnError") = 1

\* C9: OnMessage is invoked only for decoded frames whose opcode is text
\* (the low 4 bits of the first header byte are 1).
C9_OnlyTextDelivered ==
    \A c \in ConnIds :
        \A i \in 1..Len(calls[c]) :
            calls[c][i].cb = "OnMessage" => (calls[c][i].header[1] % 16) = 1

\* C10: decoding a frame with MASK=1 and key K returns the payload the
\* client masked with K; decoding an accepted frame with MASK=0 returns the
\* payload bytes as they were on the wire, not XORed with the 4 bytes read
\* as mask key.
C10_MaskFlagHonoured ==
    (cin.kind = "frame" /\ cres.err = "nil") => cres.payload = cin.payload

\* C11: round trip. The frame writeFrame produces for a payload, with the
\* mask flag set, a 4-byte key inserted after the length field and the
\* payload masked with it, decodes with readFrame to the original payload,
\* and nothing of the frame is left unread.
C11_RoundTrip ==
    rtres.err # "none" =>
        /\ rtres.err = "nil"
        /\ rtres.payload = cin.payload
        /\ rtres.rest = <<>>

\* C11's case: a payload of 126 bytes, the first length that takes the
\* 16-bit form, made the round trip.
C11_Witness ==
    /\ rtres.err = "nil" /\ Len(cin.payload) = 126
    /\ Len(rtres.payload) = 126

\* The number a run of bytes spells, most significant byte first.
RECURSIVE BigEndian(_)
BigEndian(bytes) ==
    IF bytes = <<>> THEN 0
    ELSE BigEndian(SubSeq(bytes, 1, Len(bytes) - 1)) * 256 + bytes[Len(bytes)]

\* C12: the frame writeFrame emits for a payload of L bytes is byte 0x81,
\* then L itself for L <= 125, 126 and L in 2 big-endian bytes for
\* 126 <= L <= 65535, 127 and L in 8 big-endian bytes above, then the
\* payload unchanged; the mask bit is never set and the length the header
\* spells is always L.
C12_HeaderByLength ==
    wres # <<>> =>
        LET L == Len(cin.payload)
            E == IF L <= 125 THEN 0 ELSE IF L <= 65535 THEN 2 ELSE 8
        IN  /\ Len(wres) = 2 + E + L
            /\ wres[1] = 129
            /\ wres[2] < 128
            /\ wres[2] = (IF E = 0 THEN L ELSE IF E = 2 THEN 126 ELSE 127)
            /\ E > 0 => BigEndian(SubSeq(wres, 3, 2 + E)) = L
            /\ SubSeq(wres, 3 + E, Len(wres)) = cin.payload

\* C12's case: a frame of 125 payload bytes was written, the last length
\* of the 7-bit form.
C12_Witness ==
    /\ wres # <<>>
    /\ Len(cin.payload) = 125
    /\ wres[2] = 125

\* Nothing of connection c was touched: the stream was not hijacked, no
\* response was written to it, it was not closed, no callback was made and
\* neither the read loop nor the keepalive was started.
Untouched(c) ==
    /\ ~hijacked[c] /\ ~wrote101[c]
    /\ ~closed[c] /\ closeCalls[c] = 0
    /\ calls[c] = <<>>
    /\ pc[c] = "idle" /\ ppc[c] = "idle"

\* C13: once the handshake has looked at it, a request that is not a
\* conforming upgrade (Upgrade not websocket, Connection without upgrade,
\* no key) has status 400, and a conforming one whose hijack fails has
\* status 500; in both cases the stream is never taken over, no 101 is
\* written, no callback fires and no loop starts.
C13_RejectedUntouched ==
    \A c \in live :
        upc[c] # "start" =>
            /\ ~req[c].conforming => (status[c] = 400 /\ Untouched(c))
            /\ (req[c].conforming /\ ~req[c].hijackOK) =>
                   (status[c] = 500 /\ Untouched(c))

\* C13's case: a request whose Connection header alone is wrong came back
\* rejected.
C13_Witness ==
    \E c \in live :
        /\ upc[c] = "returned" /\ status[c] = 400
        /\ req[c].up \in UpgradeOK /\ req[c].key \in KeyOK
        /\ req[c].co \in ConnectionBad

\* C14: when the write of the 101 response fails the stream is closed, by
\* the handshake and once, and nothing else ever happens on the connection:
\* no callback, no read loop, no keepalive. And wherever a callback was
\* made or a loop was started, the response had been written.
C14_NothingBeforeResponse ==
    \A c \in live :
        /\ (upc[c] # "start" /\ req[c].conforming /\ req[c].hijackOK
              /\ ~req[c].writeOK) =>
               /\ hijacked[c] /\ ~wrote101[c]
               /\ closed[c] /\ closeCalls[c] = 1
               /\ calls[c] = <<>>
               /\ pc[c] = "idle" /\ ppc[c] = "idle"
               /\ upc[c] = "returned"
        /\ (calls[c] # <<>> \/ pc[c] # "idle" \/ ppc[c] # "idle") => wrote101[c]

\* C14's case: the handshake came back from a failed write of the response.
C14_Witness ==
    \E c \in live :
        /\ upc[c] = "returned" /\ hijacked[c] /\ closed[c]
        /\ ~req[c].writeOK /\ status[c] = 0

\* What readFrame decodes from a stream, call after call, up to the first
\* call that does not return a payload.
RECURSIVE DecodedFrom(_)
DecodedFrom(stream) ==
    LET r == readFrame(stream, TRUE)
    IN  IF r.err = "nil" THEN <<r.payload>> \o DecodedFrom(r.rest) ELSE <<>>

\* All that belongs to connection c.
ConnView(c) ==
    <<status[c], hijacked[c], wrote101[c], upc[c], closed[c], closeCalls[c],
      inbound[c], peerEOF[c], outbound[c], calls[c], pc[c], panicking[c],
      decodes[c], doneClosed[c], ppc[c], ticks[c], closes[c], sends[c]>>

\* C15: of two connections, each one's OnMessage calls carry the payloads
\* decoded from its own stream, in order; and once both are upgraded, a
\* step of connection a (its decode error and its close among them)
\* changes nothing of connection b:
\* no callback, no state, no stream close, and the process b lives in goes
\* on.
C15_Isolation ==
    /\ [](\A c \in live :
             IsPrefix(MessagesOf(c),
                      DecodedFrom(Flatten([i \in 1..Len(sent[c]) |->
                                              sent[c][i].bytes]))))
    /\ [][\A a \in live, b \in live :
             (a # b /\ wrote101[a] /\ wrote101[b]
                /\ ConnView(a)' # ConnView(a)) =>
                 (ConnView(b)' = ConnView(b) /\ crashed' = crashed)]_vars

\* The last n bytes of a sequence.
LastBytes(s, n) == SubSeq(s, Len(s) - n + 1, Len(s))

\* The accept token of a response: the 28 bytes before its closing two
\* line ends.
TokenOf(resp) == SubSeq(resp, Len(resp) - 31, Len(resp) - 4)

\* The letters of base64.
Base64Letters == (65..90) \cup (97..122) \cup (48..57) \cup {43, 47}

\* C16: the accept token written in the 101 response is the base64 of the
\* SHA-1 of key + GUID: for the sample key it is
\* "s3pPLMBiTxaQ9kYGzzhZRbK+xOo=", for the keys "A" and "BA" it is the
\* token a reference implementation gives, and for every key it is 27
\* base64 letters and one "=", after "Sec-WebSocket-Accept: " and before
\* the empty line that ends the response.
C16_AcceptToken ==
    aresp # <<>> =>
        /\ LastBytes(aresp, 4) = <<13, 10, 13, 10>>
        /\ SubSeq(aresp, 1, Len(aresp) - 32) = ResponseHead
        /\ \A i \in 1..27 : TokenOf(aresp)[i] \in Base64Letters
        /\ TokenOf(aresp)[28] = 61
        /\ akey = SampleKey => TokenOf(aresp) =
            <<115,51,112,80,76,77,66,105,84,120,97,81,57,107,89,71,122,122,
              104,90,82,98,75,43,120,79,111,61>>
        /\ akey = <<65>> => TokenOf(aresp) =
            <<68,97,105,82,113,80,99,67,90,112,70,113,43,47,74,103,88,105,
              57,68,121,120,99,111,119,101,119,61>>
        /\ akey = <<66, 65>> => TokenOf(aresp) =
            <<88,106,68,49,99,66,109,66,111,113,79,119,76,100,55,84,122,53,
              100,103,52,106,66,81,104,97,52,61>>

\* C16's case: the response for the sample key was computed.
C16_Witness == akey = SampleKey /\ aresp # <<>>

\* The number of extended length bytes of a length form.
ExtOf(form) == IF form = "16" THEN 2 ELSE IF form = "64" THEN 8 ELSE 0

\* C17: a successful readFrame call takes exactly 2 + E + 4 + length bytes
\* off the stream, MASK bit set or not, and leaves the rest; so of two
\* frames back to back the first call returns the first payload and
\* leaves the second frame, and the second call returns the second
\* payload; and a stream that ends inside a frame gives an error and no
\* payload.
C17_BytesConsumed ==
    /\ (cin.kind \in {"frame", "stream"} /\ cres.err = "nil") =>
           LET used == 2 + ExtOf(cin.form) + 4 + Len(cin.payload)
           IN  /\ Len(cres.payload) = Len(cin.payload)
               /\ Len(cin.bytes) - Len(cres.rest) = used
               /\ cres.rest = SubSeq(cin.bytes, used + 1, Len(cin.bytes))
    /\ (cin.kind = "stream" /\ cres.err # "none") =>
           /\ cres.err = "nil"
           /\ cres.rest = cin.tail
           /\ cin.mask => cres.payload = cin.payload
    /\ (cin.kind = "stream" /\ cres2.err # "none") =>
           /\ cres2.err = "nil"
           /\ cres2.payload = cin.next
           /\ cres2.rest = <<>>
    /\ (cin.kind = "cut" /\ cres.err # "none") =>
           (cres.err = "EOF" /\ cres.payload = <<>>)

\* C17's case: of two frames back to back, the first with its MASK bit
\* clear and a 64-bit length, both were decoded.
C17_Witness ==
    /\ cin.kind = "stream" /\ ~cin.mask /\ cin.form = "64"
    /\ Len(cin.payload) = 2
    /\ cres.err = "nil" /\ cres2.err = "nil"

\* C18: when the read loop ends on a decode error (OnError was called),
\* handleWebSocket goes on whatever the keepalive is doing: its return from
\* OnError, which closes done, and its return from OnClose, which closes
\* the stream, are never held back; once they are taken done is closed.
\* From then on the keepalive ends sooner or later. Until it has seen
\* done closed it may take a tick, and a tick writes one ping at most;
\* after it has seen done closed it takes no tick.
C18_KeepaliveSignalled ==
    /\ [](\A c \in ConnIds :
             /\ pc[c] = "onerror" => ENABLED OnErrorReturn(c)
             /\ (pc[c] = "onclose" /\ NumCalls(c, "OnError") = 1) =>
                    (doneClosed[c] /\ ENABLED OnCloseReturn(c))
             /\ (pc[c] = "done" /\ NumCalls(c, "OnError") = 1) =>
                    doneClosed[c])
    /\ \A c \in ConnIds : doneClosed[c] ~> ppc[c] = "done"
    /\ [][\A c \in ConnIds :
             /\ ticks'[c] # ticks[c] =>
                    /\ ppc[c] = "select" /\ ticks'[c] = ticks[c] + 1
                    /\ \/ outbound'[c] = outbound[c]
                       \/ outbound'[c] = Append(outbound[c], PingFrame)
             /\ ppc[c] = "done" =>
                    (ticks'[c] = ticks[c] /\ ppc'[c] = "done")]_vars

\* C18's case: the loop ended on a decode error, the keepalive had taken a
\* tick, and both have ended.
C18_Witness ==
    \E c \in live :
        /\ NumCalls(c, "OnError") = 1
        /\ pc[c] = "done" /\ ppc[c] = "done"
        /\ ticks[c] = 1

\* The frames a run of outbound bytes is made of, as the peer reads them:
\* 2 header bytes, the extended length if any, and as many payload bytes
\* as the header says (the server's frames carry no mask key). Bytes left
\* over that are no complete frame are kept as a last, broken element.
RECURSIVE SplitFrames(_)
SplitFrames(b) ==
    IF b = <<>> THEN <<>>
    ELSE IF Len(b) < 2 \/ Len(b) < 2 + ExtLenBytes(b) THEN << <<>> >>
    ELSE LET e == ExtLenBytes(b)
             n == IF e = 0 THEN b[2] % 128 ELSE BigEndian(SubSeq(b, 3, 2 + e))
         IN  IF Len(b) < 2 + e + n THEN << <<>> >>
             ELSE <<SubSeq(b, 1, 2 + e + n)>>
                  \o SplitFrames(SubSeq(b, 2 + e + n + 1, Len(b)))

\* C19: every write to the stream, by Send or by the keepalive, holds one
\* complete frame, a text frame with the message or the 2-byte ping; so
\* the outbound bytes, the writes one after the other, are a concatenation
\* of complete frames, each one of the writes.
C19_WholeFramesWritten ==
    \A c \in live :
        /\ \A i \in 1..Len(outbound[c]) :
              /\ SplitFrames(outbound[c][i]) = <<outbound[c][i]>>
              /\ \/ outbound[c][i] = <<137, 0>>
                 \/ /\ outbound[c][i][1] = 129
                    /\ SubSeq(outbound[c][i], 3, Len(outbound[c][i])) \in Messages
        /\ SplitFrames(Flatten(outbound[c])) = outbound[c]

\* C19's case: the consumer's frame and the keepalive's ping were both
\* written to one stream, the ping first.
C19_Witness ==
    \E c \in live :
        /\ Len(outbound[c]) = 2
        /\ outbound[c][1] = <<137, 0>>
        /\ outbound[c][2][1] = 129

\* C20: a tick of the keepalive writes the 2 bytes 0x89 0x00 to the stream
\* or, its write failing, nothing; either way it makes no callback,
\* closes nothing, leaves the handshake, the stream's input and the read
\* loop where they were, and the keepalive stays at its select: as long as
\* the ticker delivers, the next tick is taken the same way.
C20_KeepaliveTick ==
    /\ [](\A c \in live :
             (ppc[c] = "select" /\ ticks[c] < MaxKeepaliveTicks /\ ~crashed) =>
                 ENABLED PingTickUpTo(c, MaxKeepaliveTicks))
    /\ [][\A c \in live :
             ticks'[c] # ticks[c] =>
                 /\ \/ outbound'[c] = Append(outbound[c], <<137, 0>>)
                    \/ outbound'[c] = outbound[c]
                 /\ closed[c] => outbound'[c] = outbound[c]
                 /\ calls'[c] = calls[c]
                 /\ pc'[c] = pc[c] /\ decodes'[c] = decodes[c]
                 /\ inbound'[c] = inbound[c] /\ peerEOF'[c] = peerEOF[c]
                 /\ closed'[c] = closed[c] /\ closeCalls'[c] = closeCalls[c]
                 /\ doneClosed'[c] = doneClosed[c]
                 /\ panicking'[c] = panicking[c] /\ crashed' = crashed
                 /\ status'[c] = status[c] /\ upc'[c] = upc[c]
                 /\ ppc'[c] = "select"]_vars

\* C20's case: on an open connection whose read loop waits for a frame,
\* two ticks were taken; the write of one failed, the other wrote its
\* ping, and no callback but OnConnect was made.
C20_Witness ==
    \E c \in live :
        /\ ticks[c] = 2
        /\ outbound[c] = << <<137, 0>> >>
        /\ ~closed[c] /\ pc[c] = "read" /\ ppc[c] = "select"
        /\ \A i \in 1..Len(calls[c]) : calls[c][i].cb = "OnConnect"

====
